---- MODULE Spec2Model ----
(***************************************************************************)
(* Model of src/solve.js: the serverless handler that forwards a math      *)
(* problem to the upstream generative-language API and maps the reply to   *)
(* a JSON response.  One invocation of handler is a small process whose    *)
(* scheduling points are the three awaits of the source (req.json(),       *)
(* fetch(), geminiResponse.json()).                                        *)
(*                                                                         *)
(* JavaScript values are tagged records; a JavaScript string is a          *)
(* sequence of one-character strings so that substring() is computed.      *)
(***************************************************************************)
EXTENDS Integers, Sequences, FiniteSets, TLC

VARIABLES apiKey, pc, req, upstream, payload, events

vars == <<apiKey, pc, req, upstream, payload, events>>

-----------------------------------------------------------------------------
(* Bounds of the model *)

\* number of handler invocations that may be in flight together (ConcSpec)
MaxConcurrent == 2

\* longest upstream error message enumerated (must exceed TruncLen)
MaxMsgLen == 52

-----------------------------------------------------------------------------
(* JavaScript values *)

Undefined == [t |-> "undefined"]

Null == [t |-> "null"]

Str(s) == [t |-> "string", v |-> s]

Num(n) == [t |-> "number", n |-> n]

Arr(a) == [t |-> "array", a |-> a]

Obj(f) == [t |-> "object", f |-> f]

NoFields == [k \in {} |-> Undefined]

\* ToBoolean, as used by !apiKey, &&, || and if (...)
Truthy(x) ==
    CASE x.t = "undefined" -> FALSE
      [] x.t = "null" -> FALSE
      [] x.t = "string" -> Len(x.v) > 0
      [] x.t = "number" -> x.n # 0
      [] OTHER -> TRUE

Nullish(x) == x.t \in {"undefined", "null"}

\* x.k for a value x that is not null/undefined (that case throws, see callers)
Get(x, k) ==
    IF x.t = "object" /\ k \in DOMAIN x.f THEN x.f[k] ELSE Undefined

\* x?.k
OptGet(x, k) == IF Nullish(x) THEN Undefined ELSE Get(x, k)

\* x?.[0]
OptIndex0(x) ==
    IF Nullish(x) THEN Undefined
    ELSE IF x.t = "array" /\ Len(x.a) >= 1 THEN x.a[1]
    ELSE IF x.t = "string" /\ Len(x.v) >= 1 THEN Str(<<x.v[1]>>)
    ELSE IF x.t = "object" /\ "0" \in DOMAIN x.f THEN x.f["0"]
    ELSE Undefined

Min(a, b) == IF a < b THEN a ELSE b

\* String.prototype.substring(0, n) on a character sequence
Substring0(s, n) == SubSeq(s, 1, Min(n, Len(s)))

-----------------------------------------------------------------------------
(* Program constants *)

\* line 8; the text is kept as one chunk, it is never inspected
systemPrompt == <<"You are 'The K Solver', an advanced mathematical computation engine. Your only function is to solve the given mathematical problem. You **must** provide the complete solution steps and the final answer **exclusively** using LaTeX mathematical notation. To enhance clarity, you **must** include brief, descriptive step labels (like LCM, Move, Cancel, Substitute, Simplify) within the LaTeX using the \\text{} command. For example, use constructs like: '$$ \\frac{1}{2} + \\frac{1}{3} = \\frac{3+2}{6} \\quad \\text{(LCM)} $$' or use the 'align*' environment for multi-step solutions with labels. Do not include any introductory text, closing remarks, explanations, descriptions, or any conversational language outside of the \\text{} command within the math block. Use '$$' for display equations and '$' for inline expressions. If the problem is unsolvable or invalid, output the message '$$ \\text{Invalid or Unsolvable Problem} $$'.">>

EndpointPrefix ==
    "https://generativelanguage.googleapis.com/v1beta/models/gemini-2.5-flash-preview-09-2025:generateContent?key="

TruncLen == 50

StatusOK == 200

StatusMethodNotAllowed == 405

StatusServerError == 500

MethodNotAllowedMessage == "Method Not Allowed"

ApiKeyMissingMessage == "Server configuration error: API Key missing."

InternalErrorMessage == "Internal server error during computation."

\* "Model returned no content."
NoContentFallback ==
    <<"M","o","d","e","l"," ","r","e","t","u","r","n","e","d"," ",
      "n","o"," ","c","o","n","t","e","n","t",".">>

\* `$$ \text{API Error: } \text{`
ErrorMarkupPrefix ==
    <<"$","$"," ","\\","t","e","x","t","{","A","P","I"," ","E","r","r","o","r",
      ":"," ","}"," ","\\","t","e","x","t","{">>

\* `...} $$`
ErrorMarkupSuffix == <<".",".",".","}"," ","$","$">>

ApiKeyMissingLog == "GEMINI_API_KEY is not set in environment variables."

GeminiErrorLog == "Gemini API Error:"

BackendFailedLog == "Backend processing failed:"

-----------------------------------------------------------------------------
(* Inputs: requests, secrets and upstream replies *)

Invs == 1..MaxConcurrent

Q1 == Str(<<"2", "+", "2">>)

Q2 == Str(<<"x", "^", "2">>)

Img == Str(<<"i", "V", "B", "O">>)

Mime == Str(<<"i", "m", "a", "g", "e", "/", "p", "n", "g">>)

T1 == Str(<<"$", "4", "$">>)

T2 == Str(<<"$", "2", "x", "$">>)

\* the secret as read from process.env at load time: unset, empty or set
ApiKeys == {Undefined, Str(<<>>), Str(<<"k", "e", "y">>)}

Methods == {"GET", "POST", "post"}

\* what `await req.json()` does: rejects, or resolves to a decoded value
InvalidBody == [kind |-> "invalid"]

JsonBody(v) == [kind |-> "json", value |-> v]

Body(q, b, m) == Obj([userQuery |-> q, base64Image |-> b, mimeType |-> m])

Bodies ==
    {InvalidBody, JsonBody(Null), JsonBody(Num(7)), JsonBody(Obj([userQuery |-> Q1]))}
    \cup {JsonBody(Body(q, b, m)) :
            q \in {Undefined, Q1, Q2},
            b \in {Undefined, Str(<<>>), Img},
            m \in {Undefined, Str(<<>>), Mime}}

\* an error message of n characters; its characters differ by position
Msg(n) == [k \in 1..n |-> ToString(k % 10)]

Part(text) == Obj([text |-> text])

Candidate(parts) == Obj([content |-> Obj([parts |-> parts])])

CandidateShapes ==
    { Undefined,
      Arr(<<>>),
      Arr(<<Obj(NoFields)>>),
      Arr(<<Candidate(Undefined)>>),
      Arr(<<Candidate(Arr(<<>>))>>),
      Arr(<<Candidate(Arr(<<Obj(NoFields)>>))>>),
      Arr(<<Candidate(Arr(<<Part(Str(<<>>))>>))>>),
      Arr(<<Candidate(Arr(<<Part(T1)>>))>>),
      Arr(<<Candidate(Arr(<<Part(T1), Part(T2)>>)),
            Candidate(Arr(<<Part(T2)>>))>>),
      Arr(<<Candidate(Arr(<<Part(Str(<<>>))>>)),
            Candidate(Arr(<<Part(T2)>>))>>),
      Obj([k \in {"0"} |-> Candidate(Arr(<<Part(T1)>>))]),
      Arr(<<Candidate(Obj([k \in {"0"} |-> Part(T2)]))>>),
      Obj([k \in {"1"} |-> Candidate(Arr(<<Part(T1)>>))]) }

ErrorShapes ==
    { Undefined, Obj(NoFields), Obj([message |-> Num(404)]) }
    \cup {Obj([message |-> Str(Msg(n))]) : n \in 0..MaxMsgLen}

GeminiResults ==
    {Null} \cup {Obj([candidates |-> c, error |-> e]) :
                    c \in CandidateShapes, e \in ErrorShapes}

\* what the upstream does with one call: fetch rejects, the reply does not
\* decode as JSON, or it decodes to a value
NoUpstream == [kind |-> "none"]

FetchThrows == [kind |-> "fetchThrows"]

JsonThrows == [kind |-> "jsonThrows"]

JsonReply(v) == [kind |-> "json", value |-> v]

Upstreams == {FetchThrows, JsonThrows} \cup {JsonReply(v) : v \in GeminiResults}

NoRequest == [method |-> "", body |-> InvalidBody]

\* the smaller inputs of the concurrent specification
ConcMethods == {"GET", "POST"}

ConcBodies ==
    { InvalidBody,
      JsonBody(Body(Q1, Undefined, Undefined)),
      JsonBody(Body(Q2, Img, Mime)) }

ConcUpstreams ==
    { FetchThrows,
      JsonReply(Obj([candidates |-> Arr(<<Candidate(Arr(<<Part(T1)>>))>>),
                     error |-> Undefined])),
      JsonReply(Obj([candidates |-> Arr(<<Candidate(Arr(<<Part(T2)>>))>>),
                     error |-> Undefined])),
      JsonReply(Obj([candidates |-> Undefined,
                     error |-> Obj([message |-> Str(Msg(3))])])) }

-----------------------------------------------------------------------------
(* Observable events of one invocation, in program order *)

ReadBody == [ev |-> "readBody"]

Log(m) == [ev |-> "log", msg |-> m]

Response(st, b) == [ev |-> "response", status |-> st, body |-> b]

IsResponse(e) == e.ev = "response"

IsLog(e) == e.ev = "log"

IsFetch(e) == e.ev = "fetch"

IsReadBody(e) == e.ev = "readBody"

Responses(i) == SelectSeq(events[i], IsResponse)

Logs(i) == SelectSeq(events[i], IsLog)

Outbound(i) == SelectSeq(events[i], IsFetch)

BodyReads(i) == SelectSeq(events[i], IsReadBody)

-----------------------------------------------------------------------------
(* The handler, piece by piece *)

\* req.method !== 'POST' is false
MethodAllowed(m) == m = "POST"

\* mutant: the test written as apiKey === undefined
ApiKeyUndefined(k) == k.t = "undefined"

\* !apiKey
ApiKeyMissing(k) == ~Truthy(k)

\* mutant: the configuration check placed ahead of the method check
EntryChecksKeyFirst(m, k) ==
    IF ApiKeyMissing(k) THEN "apiKeyMissing"
    ELSE IF ~MethodAllowed(m) THEN "methodNotAllowed"
    ELSE "proceed"

\* the two guards at the head of handler, in source order
EntryChecks(m, k) ==
    IF ~MethodAllowed(m) THEN "methodNotAllowed"
    ELSE IF ApiKeyMissing(k) THEN "apiKeyMissing"
    ELSE "proceed"

MethodNotAllowedResponse ==
    Response(StatusMethodNotAllowed, [message |-> MethodNotAllowedMessage])

\* mutant: the console.error of the configuration check left out
ApiKeyMissingEventsNoLog ==
    << Response(StatusServerError, [message |-> ApiKeyMissingMessage]) >>

ApiKeyMissingEvents ==
    << Log(ApiKeyMissingLog),
       Response(StatusServerError, [message |-> ApiKeyMissingMessage]) >>

\* mutant: the catch block answering in the upstream-error shape
CatchEventsSolutionShaped ==
    << Log(BackendFailedLog),
       Response(StatusServerError, [solution |-> Str(NoContentFallback)]) >>

\* the catch block
CatchEvents ==
    << Log(BackendFailedLog),
       Response(StatusServerError, [message |-> InternalErrorMessage]) >>

\* const { userQuery, base64Image, mimeType } = body throws on null/undefined
DestructureThrows(body) == Nullish(body)

\* mutant: contentsParts kept at module level, so it still holds what the
\* invocations before this one pushed
SharedContentsParts ==
    LET built == {j \in Invs : payload[j] # Undefined}
        partsOf(j) == payload[j].f.contents.a[1].f.parts.a
    IN  IF built = {} THEN << >>
        ELSE partsOf(CHOOSE j \in built :
                        \A k \in built : Len(partsOf(j)) >= Len(partsOf(k)))

\* const contentsParts = [];
NewContentsParts == << >>

\* mutant: || in place of &&
HasInlineImageEither(base64Image, mimeType) == Truthy(base64Image) \/ Truthy(mimeType)

\* base64Image && mimeType
HasInlineImage(base64Image, mimeType) == Truthy(base64Image) /\ Truthy(mimeType)

ContentsParts(body) ==
    LET userQuery == Get(body, "userQuery")
        base64Image == Get(body, "base64Image")
        mimeType == Get(body, "mimeType")
        first == Append(NewContentsParts, Obj([text |-> userQuery]))
    IN  IF HasInlineImage(base64Image, mimeType)
        THEN Append(first, Obj([inlineData |->
                                  Obj([mimeType |-> mimeType, data |-> base64Image])]))
        ELSE first

BuildPayload(contentsParts) ==
    Obj([contents |-> Arr(<<Obj([parts |-> Arr(contentsParts)])>>),
         systemInstruction |-> Obj([parts |-> Arr(<<Obj([text |-> Str(systemPrompt)])>>)])])

\* JSON.stringify as the JSON tree it writes: properties whose value is
\* undefined are dropped, undefined array elements become null
RECURSIVE Stringify(_)
Stringify(x) ==
    CASE x.t = "object" ->
            Obj([k \in {j \in DOMAIN x.f : x.f[j].t # "undefined"} |-> Stringify(x.f[k])])
      [] x.t = "array" ->
            Arr([n \in 1..Len(x.a) |->
                   IF x.a[n].t = "undefined" THEN Null ELSE Stringify(x.a[n])])
      [] OTHER -> x

ApiUrl(k) == Str(<<EndpointPrefix>> \o k.v)

FetchCall(k, pl) ==
    [ev |-> "fetch", url |-> ApiUrl(k), method |-> "POST",
     headers |-> [ContentType |-> "application/json"], body |-> Stringify(pl)]

\* mutant: the call issued a second time
IssueFetchTwice(evs, call) == Append(Append(evs, call), call)

\* fetch(apiUrl, ...) is called once
IssueFetch(evs, call) == Append(evs, call)

\* mutant: the last candidate taken in place of the first
LastCandidate(geminiResult) ==
    LET c == Get(geminiResult, "candidates")
    IN  IF c.t = "array" /\ Len(c.a) >= 1 THEN c.a[Len(c.a)] ELSE Undefined

\* geminiResult.candidates?.[0]
FirstCandidate(geminiResult) == OptIndex0(Get(geminiResult, "candidates"))

\* candidate.content?.parts?.[0]?.text
CandidateText(candidate) ==
    OptGet(OptIndex0(OptGet(Get(candidate, "content"), "parts")), "text")

\* geminiResult.error?.message || "Model returned no content."
ErrorMessage(geminiResult) ==
    LET m == OptGet(Get(geminiResult, "error"), "message")
    IN  IF Truthy(m) THEN m ELSE Str(NoContentFallback)

SuccessResponse(solutionText) == Response(StatusOK, [solution |-> solutionText])

ErrorSolution(errorMessage) ==
    Str(ErrorMarkupPrefix \o Substring0(errorMessage.v, TruncLen) \o ErrorMarkupSuffix)

\* mutant: res.json(...) without status(500)
UpstreamErrorResponseOK(errorMessage) ==
    Response(StatusOK, [solution |-> ErrorSolution(errorMessage)])

UpstreamErrorResponse(errorMessage) ==
    Response(StatusServerError, [solution |-> ErrorSolution(errorMessage)])

\* lines 56-68 and, where one of them throws, the catch block: the events the
\* handler produces once the upstream reply decoded to geminiResult
MapResult(geminiResult) ==
    IF Nullish(geminiResult) THEN CatchEvents
    ELSE
      LET candidate == FirstCandidate(geminiResult)
      IN  IF Truthy(candidate) /\ Truthy(CandidateText(candidate))
          THEN << SuccessResponse(CandidateText(candidate)) >>
          ELSE
            LET errorMessage == ErrorMessage(geminiResult)
            IN  IF errorMessage.t # "string"
                THEN << Log(GeminiErrorLog) >> \o CatchEvents
                ELSE << Log(GeminiErrorLog), UpstreamErrorResponse(errorMessage) >>

-----------------------------------------------------------------------------
(* State machine *)

Init ==
    /\ apiKey \in ApiKeys
    /\ pc = [i \in Invs |-> "idle"]
    /\ req = [i \in Invs |-> NoRequest]
    /\ upstream = [i \in Invs |-> NoUpstream]
    /\ payload = [i \in Invs |-> Undefined]
    /\ events = [i \in Invs |-> << >>]

\* handler is called and runs to its first await or to a return
Invoke(i, m, b) ==
    /\ pc[i] = "idle"
    /\ req' = [req EXCEPT ![i] = [method |-> m, body |-> b]]
    /\ LET c == EntryChecks(m, apiKey)
       IN  CASE c = "methodNotAllowed" ->
                  /\ events' = [events EXCEPT ![i] = Append(@, MethodNotAllowedResponse)]
                  /\ pc' = [pc EXCEPT ![i] = "done"]
             [] c = "apiKeyMissing" ->
                  /\ events' = [events EXCEPT ![i] = @ \o ApiKeyMissingEvents]
                  /\ pc' = [pc EXCEPT ![i] = "done"]
             [] OTHER ->
                  /\ events' = [events EXCEPT ![i] = Append(@, ReadBody)]
                  /\ pc' = [pc EXCEPT ![i] = "awaitBody"]
    /\ UNCHANGED <<apiKey, upstream, payload>>

\* await req.json() settles; on success the handler runs on to await fetch(...)
BodySettled(i) ==
    /\ pc[i] = "awaitBody"
    /\ LET b == req[i].body
       IN  IF b.kind = "invalid" \/ DestructureThrows(b.value)
           THEN /\ events' = [events EXCEPT ![i] = @ \o CatchEvents]
                /\ pc' = [pc EXCEPT ![i] = "done"]
                /\ UNCHANGED payload
           ELSE LET pl == BuildPayload(ContentsParts(b.value))
                IN  /\ payload' = [payload EXCEPT ![i] = pl]
                    /\ events' = [events EXCEPT ![i] = IssueFetch(@, FetchCall(apiKey, pl))]
                    /\ pc' = [pc EXCEPT ![i] = "awaitFetch"]
    /\ UNCHANGED <<apiKey, req, upstream>>

\* await fetch(...) settles; on success geminiResponse.json() is awaited
FetchSettled(i, u) ==
    /\ pc[i] = "awaitFetch"
    /\ upstream' = [upstream EXCEPT ![i] = u]
    /\ IF u.kind = "fetchThrows"
       THEN /\ events' = [events EXCEPT ![i] = @ \o CatchEvents]
            /\ pc' = [pc EXCEPT ![i] = "done"]
       ELSE /\ pc' = [pc EXCEPT ![i] = "awaitJson"]
            /\ UNCHANGED events
    /\ UNCHANGED <<apiKey, req, payload>>

\* await geminiResponse.json() settles; the handler runs to its return
JsonSettled(i) ==
    /\ pc[i] = "awaitJson"
    /\ IF upstream[i].kind = "jsonThrows"
       THEN events' = [events EXCEPT ![i] = @ \o CatchEvents]
       ELSE events' = [events EXCEPT ![i] = @ \o MapResult(upstream[i].value)]
    /\ pc' = [pc EXCEPT ![i] = "done"]
    /\ UNCHANGED <<apiKey, req, upstream, payload>>

\* one invocation, every input shape
Next ==
    \/ \E m \in Methods, b \in Bodies : Invoke(1, m, b)
    \/ BodySettled(1)
    \/ \E u \in Upstreams : FetchSettled(1, u)
    \/ JsonSettled(1)

Spec == Init /\ [][Next]_vars

\* a pending promise settles: the request body is at hand, and the upstream
\* call returns or throws
FairSpec ==
    /\ Spec
    /\ WF_vars(BodySettled(1))
    /\ WF_vars(\E u \in Upstreams : FetchSettled(1, u))
    /\ WF_vars(JsonSettled(1))

\* several invocations interleaving at their awaits
NextConc ==
    \/ \E i \in Invs, m \in ConcMethods, b \in ConcBodies : Invoke(i, m, b)
    \/ \E i \in Invs : BodySettled(i)
    \/ \E i \in Invs, u \in ConcUpstreams : FetchSettled(i, u)
    \/ \E i \in Invs : JsonSettled(i)

ConcSpec == Init /\ [][NextConc]_vars

-----------------------------------------------------------------------------
(* Vocabulary of the properties, read off the inputs alone *)

Done(i) == pc[i] = "done"

Started(i) == pc[i] # "idle"

\* "set" for a secret or a body field: present and not the empty string
IsSet(x) == x.t = "string" /\ x.v # << >>

\* element 0 of a decoded value: of an array, or the property "0" of an
\* object; Undefined when there is none
Element0(x) ==
    IF x.t = "array" /\ Len(x.a) >= 1 THEN x.a[1]
    ELSE IF x.t = "object" /\ "0" \in DOMAIN x.f THEN x.f["0"]
    ELSE Undefined

\* property k of a decoded value, Undefined when there is none
Property(x, k) ==
    IF x.t = "object" /\ k \in DOMAIN x.f THEN x.f[k] ELSE Undefined

\* the text of the first content part of the first candidate of a decoded
\* reply (first: at index 0), Undefined when the reply has no such place
ReplyText(v) ==
    Property(Element0(Property(Property(Element0(Property(v, "candidates")),
                                        "content"), "parts")), "text")

HasUsableText(v) == IsSet(ReplyText(v))

\* the message of the error field of a decoded reply, Undefined when absent
ReplyErrorMessage(v) ==
    IF /\ v.t = "object"
       /\ "error" \in DOMAIN v.f
       /\ v.f.error.t = "object"
       /\ "message" \in DOMAIN v.f.error.f
    THEN v.f.error.f.message
    ELSE Undefined

\* the markup-wrapped error string around at most the first 50 characters of s
Wrapped(s) ==
    Str(ErrorMarkupPrefix
        \o [k \in 1..(IF Len(s) < 50 THEN Len(s) ELSE 50) |-> s[k]]
        \o ErrorMarkupSuffix)

\* the upstream call of invocation i returned and its reply decoded
Decoded(i) == upstream[i].kind = "json"

\* the request body of invocation i parsed into an IncomingRequest record
\* (req.json() resolved and the destructuring of line 25 went through)
BodyParsed(i) == req[i].body.kind = "json" /\ req[i].body.value.t \notin {"null", "undefined"}

\* field k of the parsed request body of invocation i, Undefined when absent
BodyField(i, k) ==
    IF req[i].body.value.t = "object" /\ k \in DOMAIN req[i].body.value.f
    THEN req[i].body.value.f[k]
    ELSE Undefined

PassedChecks(i) == req[i].method = "POST" /\ IsSet(apiKey)

PartsOf(pl) == pl.f.contents.a[1].f.parts.a

TheResponse(i) == Responses(i)[1]

-----------------------------------------------------------------------------
(* Properties *)

\* C1: a request whose method is not POST is answered 405 with
\* {message: "Method Not Allowed"}, whether or not the secret is set; its
\* body is never read and no call to the upstream is made.
C1_MethodNotAllowed ==
    \A i \in Invs :
        (Started(i) /\ req[i].method # "POST") =>
            /\ Done(i)
            /\ events[i] = << [ev |-> "response", status |-> 405,
                               body |-> [message |-> "Method Not Allowed"]] >>
            /\ BodyReads(i) = << >>
            /\ Outbound(i) = << >>

C1_Witness ==
    /\ Done(1)
    /\ req[1].method = "GET"
    /\ ~IsSet(apiKey)
    /\ Len(Responses(1)) = 1
    /\ TheResponse(1).status = 405

\* C2: a POST made while the secret is unset or empty is answered 500 with
\* {message: "Server configuration error: API Key missing."}; the body is
\* not read and no call to the upstream is made.
C2_ApiKeyMissing ==
    \A i \in Invs :
        (Started(i) /\ req[i].method = "POST" /\ ~IsSet(apiKey)) =>
            /\ Done(i)
            /\ Responses(i) =
                 << [ev |-> "response", status |-> 500,
                     body |-> [message |-> "Server configuration error: API Key missing."]] >>
            /\ BodyReads(i) = << >>
            /\ Outbound(i) = << >>

C2_Witness ==
    /\ Done(1)
    /\ req[1].method = "POST"
    /\ apiKey = Str(<< >>)
    /\ Len(Responses(1)) = 1
    /\ TheResponse(1).status = 500

\* C3: when the decoded upstream reply has a first candidate whose first
\* content part has non-empty text t, the response is 200 with body
\* {solution: t}, t unmodified, and no other field.
C3_SolutionPassedThrough ==
    \A i \in Invs :
        (Done(i) /\ Decoded(i) /\ HasUsableText(upstream[i].value)) =>
            Responses(i) =
                << [ev |-> "response", status |-> 200,
                    body |-> [solution |-> ReplyText(upstream[i].value)]] >>

C3_Witness ==
    /\ Done(1)
    /\ Decoded(1)
    /\ HasUsableText(upstream[1].value)
    /\ upstream[1].value.f.candidates.t = "array"
    /\ Len(upstream[1].value.f.candidates.a) = 2
    /\ Len(Responses(1)) = 1
    /\ TheResponse(1).body = [solution |-> T1]

\* C4: when the decoded upstream reply has no usable first-candidate text, the
\* response is 500 with a body {solution: s}, never {message: ...}, where s
\* wraps at most the first 50 characters of the upstream error message when
\* one is present and the generic fallback otherwise, whatever the shape of
\* the reply's error field.
C4_UpstreamErrorShaped ==
    \A i \in Invs :
        (Done(i) /\ Decoded(i) /\ ~HasUsableText(upstream[i].value)) =>
            /\ Len(Responses(i)) = 1
            /\ TheResponse(i).status = 500
            /\ DOMAIN TheResponse(i).body = {"solution"}
            /\ LET m == ReplyErrorMessage(upstream[i].value)
               IN  /\ IsSet(m) => TheResponse(i).body.solution = Wrapped(m.v)
                   /\ m \in {Undefined, Str(<< >>)} =>
                        TheResponse(i).body.solution = Wrapped(NoContentFallback)

\* C5: when reading or parsing the request body fails, the outbound call
\* throws, or decoding the upstream reply throws, the response is 500 with
\* {message: "Internal server error during computation."}, never a
\* {solution: ...} body; when the body fails to parse no outbound call is made.
C5_InternalError ==
    \A i \in Invs :
        (Done(i) /\ PassedChecks(i)) =>
            /\ (~BodyParsed(i) \/ upstream[i].kind \in {"fetchThrows", "jsonThrows"}) =>
                  Responses(i) =
                    << [ev |-> "response", status |-> 500,
                        body |-> [message |-> "Internal server error during computation."]] >>
            /\ ~BodyParsed(i) => Outbound(i) = << >>

C5_Witness ==
    /\ Done(1)
    /\ PassedChecks(1)
    /\ upstream[1] = JsonThrows
    /\ Len(Responses(1)) = 1
    /\ TheResponse(1).status = 500

\* C6: the parts of the payload start with one text part carrying userQuery;
\* an inline-data part {mimeType, data: base64Image}, both copied verbatim,
\* follows exactly when base64Image and mimeType are both set; there are
\* never more than two parts.
C6_PayloadParts ==
    \A i \in Invs :
        payload[i] # Undefined =>
            LET parts == PartsOf(payload[i])
                b == [k \in {"userQuery", "base64Image", "mimeType"} |-> BodyField(i, k)]
            IN  /\ Len(parts) \in {1, 2}
                /\ parts[1] = Obj([text |-> b.userQuery])
                /\ Len(parts) = 2 <=> (IsSet(b.base64Image) /\ IsSet(b.mimeType))
                /\ Len(parts) = 2 =>
                     parts[2] = Obj([inlineData |->
                                       Obj([mimeType |-> b.mimeType, data |-> b.base64Image])])

C6_Witness ==
    /\ payload[1] # Undefined
    /\ Len(PartsOf(payload[1])) = 2
    /\ PartsOf(payload[1])[1] = Obj([text |-> Q2])
    /\ PartsOf(payload[1])[2] = Obj([inlineData |-> Obj([mimeType |-> Mime, data |-> Img])])

\* C7: an invocation that passes both checks and parses its body issues
\* exactly one outbound POST to the upstream endpoint, it is issued before
\* the first upstream outcome, and no invocation ever issues a second one:
\* whatever the upstream outcome, the next event is the terminal response.
C7_OneOutboundCall ==
    \A i \in Invs :
        /\ Len(Outbound(i)) <= 1
        /\ (Started(i) /\ pc[i] # "awaitBody" /\ PassedChecks(i) /\ BodyParsed(i)) =>
              /\ Len(Outbound(i)) = 1
              /\ Outbound(i)[1].method = "POST"
              /\ Outbound(i)[1].url = Str(<<EndpointPrefix>> \o apiKey.v)
        /\ (Done(i) /\ ~(PassedChecks(i) /\ BodyParsed(i))) => Outbound(i) = << >>
        /\ (Done(i) /\ upstream[i] # NoUpstream) =>
              \E k \in 1..Len(events[i]) :
                  /\ IsFetch(events[i][k])
                  /\ \A j \in (k+1)..Len(events[i]) : ~IsFetch(events[i][j])
                  /\ IsResponse(events[i][Len(events[i])])

C7_Witness ==
    /\ Done(1)
    /\ upstream[1] = FetchThrows
    /\ Len(Outbound(1)) = 1

\* the response is the last event and every log entry precedes it
LogsPrecedeResponse(i) ==
    /\ Len(Responses(i)) = 1
    /\ IsResponse(events[i][Len(events[i])])

\* C8 as stated: every error path (wrong method included) writes exactly one
\* log entry before the terminal response, and the success path writes none.
C8_LoggedExactlyOnce ==
    \A i \in Invs :
        Done(i) =>
            /\ LogsPrecedeResponse(i)
            /\ TheResponse(i).status # 200 => Len(Logs(i)) = 1
            /\ TheResponse(i).status = 200 => Len(Logs(i)) = 0

\* the no-content branch logged and then threw on a non-string error message
ThrewAfterLogging(i) ==
    /\ Decoded(i)
    /\ ~Nullish(upstream[i].value)
    /\ ~HasUsableText(upstream[i].value)
    /\ ReplyErrorMessage(upstream[i].value).t = "number"
    /\ ReplyErrorMessage(upstream[i].value).n # 0

\* C8 amended: the wrong-method path and the success path write no log entry;
\* the missing-secret path writes exactly one; every other error path writes
\* at least one, and exactly one unless the no-content branch throws after
\* it logged, where the catch block writes a second; every entry precedes
\* the terminal response.
C8_LoggedOnErrorPaths ==
    \A i \in Invs :
        Done(i) =>
            /\ LogsPrecedeResponse(i)
            /\ CASE req[i].method # "POST" -> Logs(i) = << >>
                 [] req[i].method = "POST" /\ ~IsSet(apiKey) ->
                      Logs(i) = << [ev |-> "log",
                                    msg |-> "GEMINI_API_KEY is not set in environment variables."] >>
                 [] OTHER ->
                      IF TheResponse(i).status = 200 THEN Logs(i) = << >>
                      ELSE IF ThrewAfterLogging(i)
                      THEN Logs(i) = << [ev |-> "log", msg |-> "Gemini API Error:"],
                                        [ev |-> "log", msg |-> "Backend processing failed:"] >>
                      ELSE Len(Logs(i)) = 1

C8_Witness ==
    /\ Done(1)
    /\ Decoded(1)
    /\ ~HasUsableText(upstream[1].value)
    /\ Logs(1) = << [ev |-> "log", msg |-> "Gemini API Error:"] >>
    /\ Len(Responses(1)) = 1
    /\ "solution" \in DOMAIN TheResponse(1).body

C9_Statuses ==
    \A i \in Invs :
        /\ Len(Responses(i)) = (IF Done(i) THEN 1 ELSE 0)
        /\ Done(i) =>
             LET r == TheResponse(i)
             IN  /\ r.status \in {200, 405, 500}
                 /\ r.status = 405 <=> req[i].method # "POST"
                 /\ r.status = 200 <=>
                      /\ req[i].method = "POST"
                      /\ IsSet(apiKey)
                      /\ Decoded(i)
                      /\ HasUsableText(upstream[i].value)
                 /\ "solution" \in DOMAIN r.body =>
                      /\ Decoded(i)
                      /\ Len(Outbound(i)) = 1
                 /\ "message" \in DOMAIN r.body => r.status # 200

\* C9: provided the pending body read and upstream call settle, every
\* invocation ends with exactly one response; its status is 405 exactly when
\* the method is not POST, 200 exactly when the method is POST, the secret
\* is set and the reply carries usable first-candidate text, and 500
\* otherwise; a {solution: ...} body is sent only after an upstream call
\* completed and a {message: ...} body never accompanies 200.
C9_OneResponse ==
    /\ []C9_Statuses
    /\ \A i \in {1} : Started(i) ~> Done(i)

C9_Witness ==
    /\ Done(1)
    /\ Len(Responses(1)) = 1
    /\ TheResponse(1).status = 200
    /\ Len(Outbound(1)) = 1

C10_Isolated ==
    \A i \in Invs :
        /\ payload[i] # Undefined =>
             LET parts == PartsOf(payload[i])
                 b == [k \in {"userQuery", "base64Image", "mimeType"} |-> BodyField(i, k)]
             IN  /\ parts[1] = Obj([text |-> b.userQuery])
                 /\ \A k \in 2..Len(parts) :
                      /\ k = 2
                      /\ parts[k] = Obj([inlineData |->
                                           Obj([mimeType |-> b.mimeType, data |-> b.base64Image])])
                 /\ Len(Outbound(i)) = 1
                 /\ Outbound(i)[1].url = Str(<<EndpointPrefix>> \o apiKey.v)
        /\ (Done(i) /\ "solution" \in DOMAIN TheResponse(i).body) =>
             /\ Decoded(i)
             /\ TheResponse(i).body.solution =
                  (IF TheResponse(i).status = 200
                   THEN ReplyText(upstream[i].value)
                   ELSE IF IsSet(ReplyErrorMessage(upstream[i].value))
                   THEN Wrapped(ReplyErrorMessage(upstream[i].value).v)
                   ELSE Wrapped(NoContentFallback))

\* C10: when invocations interleave at their awaits, the payload and the
\* response of each are made of its own request, its own upstream reply and
\* the secret, and the secret is never written after startup.
C10_NoSharedState ==
    /\ []C10_Isolated
    /\ [][apiKey' = apiKey]_vars

C10_Witness ==
    /\ pc[1] = "awaitJson"
    /\ pc[2] = "awaitFetch"
    /\ payload[1] # payload[2]
    /\ req[1].body # req[2].body

====
